---- MODULE Spec2Model ----
(***************************************************************************)
(* Model of monaibuilder: ExtendedSpytulaBuilder (idempotent node / nodes  *)
(* over a nested mapping) and BundleBuilder (train / validate document     *)
(* assembly, finalize steps, build).                                       *)
(*                                                                         *)
(* A Python value is a tagged record: Str(s) a string, Map(m) a dict (a    *)
(* function from key strings to values), List(l) a list.  A builder is     *)
(* identified with its _data value.  Operations return a result record     *)
(* [b, err, out]: the builder's _data afterwards, the exception raised     *)
(* ("none" when the call returns) and an auxiliary output.                 *)
(***************************************************************************)
EXTENDS Integers, Sequences, FiniteSets, TLC

VARIABLES data, calls, pc, written, files

vars == <<data, calls, pc, written, files>>

\* ---------------------------------------------------------------- bounds
\* the number of public calls made on one builder under each specification
MaxNodeCalls == 4
MaxItemCalls == 3
MaxTransformCalls == 3
MaxBuildCalls == 4

\* ---------------------------------------------------------------- values
Str(s) == [t |-> "str", v |-> s]
Map(m) == [t |-> "map", v |-> m]
List(l) == [t |-> "list", v |-> l]
EmptyMap == Map(<<>>)
EmptyList == List(<<>>)

IsMap(x) == x.t = "map"
IsList(x) == x.t = "list"
Keys(b) == IF IsMap(b) THEN DOMAIN b.v ELSE {}
Has(b, k) == k \in Keys(b)

R(b, err, out) == [b |-> b, err |-> err, out |-> out]
Ok(b) == R(b, "none", <<>>)

\* ------------------------------------------------- SpytulaBuilder (base)
\* self._data[key] = value; a _data that is not a dict rejects the store.
SetItem(b, key, value) ==
    IF IsMap(b)
    THEN Ok(Map([x \in DOMAIN b.v \cup {key} |-> IF x = key THEN value ELSE b.v[x]]))
    ELSE R(b, "TypeError", <<>>)

attribute(b, key, value) == SetItem(b, key, value)

\* with super().node(key) as n: ... -- n is a fresh builder; r is the outcome
\* of the with-body on n.  n._data is stored under key when the body returns;
\* an exception in the body skips the store.
super_node(b, key, r) ==
    IF r.err = "none"
    THEN R(SetItem(b, key, r.b).b, "none", r.out)
    ELSE R(b, r.err, r.out)

\* with super().nodes(key): self._data[key] = [] on entry.
super_nodes(b, key) == SetItem(b, key, EmptyList)

\* with add_node(nodes_list) as n: ... -- nodes_list.append(n._data) on exit.
add_node(b, key, item) ==
    Ok(Map([b.v EXCEPT ![key] = List(Append(b.v[key].v, item))]))

\* self._data[key].append(value)
append_value(b, key, value) ==
    IF ~Has(b, key) THEN R(b, "KeyError", <<>>)
    ELSE IF ~IsList(b.v[key]) THEN R(b, "AttributeError", <<>>)
    ELSE Ok(Map([b.v EXCEPT ![key] = List(Append(b.v[key].v, value))]))

\* ------------------------------------------------ ExtendedSpytulaBuilder
\* key in self._data.keys(); only a dict has keys().
CanQuery(b) == IsMap(b)
is_exist_node(b, key) == key \in DOMAIN b.v

\* node without the reuse branch: every opening yields a fresh builder
node_yield_fresh(b, key) == EmptyMap

\* the _data of the builder that "with self.node(key) as n" yields: a fresh
\* one when key is absent, the value stored under key otherwise.
node_yield(b, key) ==
    IF CanQuery(b) /\ is_exist_node(b, key) THEN b.v[key] ELSE EmptyMap

\* with self.node(key) as n: ... -- r is the outcome of the with-body on
\* the builder node_yield(b, key); an existing value is modified in place.
node(b, key, r) ==
    IF ~CanQuery(b) THEN R(b, "AttributeError", <<>>)
    ELSE IF ~is_exist_node(b, key) THEN super_node(b, key, r)
    ELSE R(Map([b.v EXCEPT ![key] = r.b]), r.err, r.out)

\* nodes without the reuse branch: every opening starts from an empty list
nodes_fresh(b, key) ==
    IF ~CanQuery(b) THEN R(b, "AttributeError", <<>>)
    ELSE super_nodes(b, key)

\* entry of "with self.nodes(key) as add": the builder once the list that
\* add() appends to is in place.
nodes(b, key) ==
    IF ~CanQuery(b) THEN R(b, "AttributeError", <<>>)
    ELSE IF ~is_exist_node(b, key) THEN super_nodes(b, key)
    ELSE IF IsList(b.v[key]) THEN Ok(b)
    ELSE super_nodes(b, key)

\* --------------------------------------------------------- BundleBuilder
Raised(r) == r.err # "none"

RECURSIVE SetAll(_, _, _)
\* for k, v in vargs.items(): builder.attribute(k, v)
SetAll(b, vargs, ks) ==
    IF ks = {} THEN Ok(b)
    ELSE LET k == CHOOSE x \in ks : TRUE
             r == attribute(b, k, vargs[k])
         IN  IF Raised(r) THEN r ELSE SetAll(r.b, vargs, ks \ {k})

add_item(b, name, vargs) ==
    LET r == attribute(b, "_target_", Str(name))
    IN  IF Raised(r) THEN r ELSE SetAll(r.b, vargs, DOMAIN vargs)

\* the mapping a fresh builder holds after _add_item
Item(name, vargs) == add_item(EmptyMap, name, vargs).b

\* add_sectioned_item storing the item with a plain attribute
add_sectioned_item_plain(b, section_name, name, vargs) ==
    attribute(b, section_name, Item(name, vargs))

add_sectioned_item(b, section_name, name, vargs) ==
    LET section_builder == node_yield(b, section_name)
    IN  node(b, section_name, add_item(section_builder, name, vargs))

\* add_train_item opening the section inside a fresh train builder
add_train_item_fresh(b, section_name, name, vargs) ==
    node(b, "train",
         node(EmptyMap, section_name,
              add_item(node_yield(node_yield(b, "train"), section_name), name, vargs)))

add_train_item(b, section_name, name, vargs) ==
    LET train_builder == node_yield(b, "train")
        section_builder == node_yield(train_builder, section_name)
    IN  node(b, "train",
             node(train_builder, section_name,
                  add_item(section_builder, name, vargs)))

add_validate_item(b, section_name, name, vargs) ==
    LET validate_builder == node_yield(b, "validate")
        section_builder == node_yield(validate_builder, section_name)
    IN  node(b, "validate",
             node(validate_builder, section_name,
                  add_item(section_builder, name, vargs)))

\* AppendItem reading the length of the list after the item is appended
AppendItem_after(b, key, name, vargs) ==
    LET o == nodes(b, key)
    IN  IF Raised(o) THEN o
        ELSE R(add_node(o.b, key, Item(name, vargs)).b, "none",
               <<Len(o.b.v[key].v) + 1>>)

\* with builder.nodes(key) as add: with add() as t: _add_item(t, name, vargs)
\* out: the length of the list before the item is appended.
AppendItem(b, key, name, vargs) ==
    LET o == nodes(b, key)
    IN  IF Raised(o) THEN o
        ELSE R(add_node(o.b, key, Item(name, vargs)).b, "none",
               <<Len(o.b.v[key].v)>>)

DetRef(i) == Str("@train#deterministic_transforms#" \o ToString(i))
PostRef(i) == Str("@train#postprocessing_transforms#" \o ToString(i))

\* body of "with self.builder.node("validate")" in the is_train and
\* is_validate case: create the list when absent, append the reference.
AppendRef(vb, key, ref) ==
    IF ~CanQuery(vb) THEN R(vb, "AttributeError", <<>>)
    ELSE LET v1 == IF ~is_exist_node(vb, key) THEN SetItem(vb, key, EmptyList).b
                   ELSE vb
         IN  append_value(v1, key, ref)

\* add_deterministic_transform with "if is_validate" in place of the
\* reference branch: validate always gets a fresh item
add_deterministic_transform_dup(b, name, vargs, is_train, is_validate) ==
    LET t == IF is_train
             THEN node(b, "train",
                       AppendItem(node_yield(b, "train"), "deterministic_transforms",
                                  name, vargs))
             ELSE R(b, "none", <<0>>)
    IN  IF Raised(t) \/ ~is_validate THEN t
        ELSE node(t.b, "validate",
                  AppendItem(node_yield(t.b, "validate"), "deterministic_transforms",
                             name, vargs))

\* add_deterministic_transform whose index stays at its initial value 0
add_deterministic_transform_zero(b, name, vargs, is_train, is_validate) ==
    LET t == IF is_train
             THEN node(b, "train",
                       AppendItem(node_yield(b, "train"), "deterministic_transforms",
                                  name, vargs))
             ELSE R(b, "none", <<0>>)
    IN  IF Raised(t) THEN t
        ELSE IF is_train /\ is_validate
        THEN node(t.b, "validate",
                  AppendRef(node_yield(t.b, "validate"), "deterministic_transforms",
                            DetRef(0)))
        ELSE IF is_validate
        THEN node(t.b, "validate",
                  AppendItem(node_yield(t.b, "validate"), "deterministic_transforms",
                             name, vargs))
        ELSE t

add_deterministic_transform(b, name, vargs, is_train, is_validate) ==
    LET train_builder == node_yield(b, "train")
        t == IF is_train
             THEN node(b, "train",
                       AppendItem(train_builder, "deterministic_transforms", name, vargs))
             ELSE R(b, "none", <<0>>)
        train_transform_index == t.out[1]
        validate_builder == node_yield(t.b, "validate")
    IN  IF Raised(t) THEN t
        ELSE IF is_train /\ is_validate
        THEN node(t.b, "validate",
                  AppendRef(validate_builder, "deterministic_transforms",
                            DetRef(train_transform_index)))
        ELSE IF is_validate
        THEN node(t.b, "validate",
                  AppendItem(validate_builder, "deterministic_transforms", name, vargs))
        ELSE t

\* add_random_transform with a validate counterpart
add_random_transform_shared(b, name, vargs) ==
    LET t == node(b, "train",
                  AppendItem(node_yield(b, "train"), "random_transforms", name, vargs))
    IN  IF Raised(t) THEN t
        ELSE node(t.b, "validate",
                  AppendItem(node_yield(t.b, "validate"), "random_transforms", name, vargs))

add_random_transform(b, name, vargs) ==
    LET train_builder == node_yield(b, "train")
    IN  node(b, "train", AppendItem(train_builder, "random_transforms", name, vargs))

\* add_postprocessing_transform reading the index from the deterministic list
add_postprocessing_transform_detlen(b, name, vargs, is_train, is_validate) ==
    LET t == IF is_train
             THEN node(b, "train",
                       AppendItem(node_yield(b, "train"), "postprocessing_transforms",
                                  name, vargs))
             ELSE R(b, "none", <<0>>)
        tb == node_yield(t.b, "train")
        train_transform_index ==
            IF is_train /\ Has(tb, "deterministic_transforms")
                        /\ IsList(tb.v["deterministic_transforms"])
            THEN Len(tb.v["deterministic_transforms"].v) ELSE 0
    IN  IF Raised(t) THEN t
        ELSE IF is_train /\ is_validate
        THEN node(t.b, "validate",
                  AppendRef(node_yield(t.b, "validate"), "postprocessing_transforms",
                            PostRef(train_transform_index)))
        ELSE IF is_validate
        THEN node(t.b, "validate",
                  AppendItem(node_yield(t.b, "validate"), "postprocessing_transforms",
                             name, vargs))
        ELSE t

add_postprocessing_transform(b, name, vargs, is_train, is_validate) ==
    LET train_builder == node_yield(b, "train")
        t == IF is_train
             THEN node(b, "train",
                       AppendItem(train_builder, "postprocessing_transforms", name, vargs))
             ELSE R(b, "none", <<0>>)
        train_transform_index == t.out[1]
        validate_builder == node_yield(t.b, "validate")
    IN  IF Raised(t) THEN t
        ELSE IF is_train /\ is_validate
        THEN node(t.b, "validate",
                  AppendRef(validate_builder, "postprocessing_transforms",
                            PostRef(train_transform_index)))
        ELSE IF is_validate
        THEN node(t.b, "validate",
                  AppendItem(validate_builder, "postprocessing_transforms", name, vargs))
        ELSE t

add_section_handler(b, section_name, name, vargs) ==
    LET section_builder == node_yield(b, section_name)
    IN  node(b, section_name, AppendItem(section_builder, "handlers", name, vargs))

TrainCheckKeys ==
    <<"preprocessing", "dataset", "dataloader", "postprocessing",
      "handlers", "key_metric", "trainer", "inferer">>

ValidateCheckKeys ==
    <<"preprocessing", "postprocessing", "dataset", "dataloader",
      "handlers", "key_metric", "evaluator", "inferer">>

Compose(transforms) ==
    Map([k \in {"_target_", "transforms"} |->
            IF k = "_target_" THEN Str("Compose") ELSE Str(transforms)])

TrainPreprocessing ==
    Compose("$@train#deterministic_transforms + @train#random_transforms")
TrainPostprocessing == Compose("$@train#postprocessing_transforms")
ValidatePreprocessing == Compose("$@validate#deterministic_transforms")
ValidatePostprocessing == Compose("$@validate#postprocessing_transforms")

\* [k for v, k in zip(checks, _check_keys) if not v]
Missing(b, check_keys) ==
    LET absent(k) == k \notin DOMAIN b.v IN SelectSeq(check_keys, absent)

\* the assertion naming only the first missing key
CheckKeys_first(b, check_keys) ==
    IF Missing(b, check_keys) = <<>> THEN Ok(b)
    ELSE R(b, "AssertionError", <<Head(Missing(b, check_keys))>>)

\* assert all(checks), f"keys '{missing}' do not exists in ... section"
CheckKeys(b, check_keys) ==
    IF Missing(b, check_keys) = <<>> THEN Ok(b)
    ELSE R(b, "AssertionError", Missing(b, check_keys))

\* the list stored without the existence test
EnsureList_reset(b, key) == attribute(b, key, EmptyList).b

\* if not config.is_exist_node(key): config.attribute(key, list())
EnsureList(b, key) == IF is_exist_node(b, key) THEN b ELSE attribute(b, key, EmptyList).b

\* the train body with preprocessing / postprocessing only ensured to exist
TrainSectionBody_ensure(tc) ==
    IF ~CanQuery(tc) THEN R(tc, "AttributeError", <<>>)
    ELSE LET c1 == EnsureList(tc, "deterministic_transforms")
             c2 == EnsureList(c1, "random_transforms")
             c3 == IF is_exist_node(c2, "preprocessing") THEN c2
                   ELSE attribute(c2, "preprocessing", TrainPreprocessing).b
             c4 == IF is_exist_node(c3, "postprocessing") THEN c3
                   ELSE attribute(c3, "postprocessing", TrainPostprocessing).b
             c5 == attribute(c4, "additional_metrics", EmptyList).b
         IN  CheckKeys(c5, TrainCheckKeys)

\* body of "with self.builder.node("train") as train_config"
TrainSectionBody(tc) ==
    IF ~CanQuery(tc) THEN R(tc, "AttributeError", <<>>)
    ELSE LET c1 == EnsureList(tc, "deterministic_transforms")
             c2 == EnsureList(c1, "random_transforms")
             c3 == attribute(c2, "preprocessing", TrainPreprocessing).b
             c4 == attribute(c3, "postprocessing", TrainPostprocessing).b
             c5 == attribute(c4, "additional_metrics", EmptyList).b
         IN  CheckKeys(c5, TrainCheckKeys)

set_train_section(b) == node(b, "train", TrainSectionBody(node_yield(b, "train")))

\* body of "with self.builder.node("validate") as validate_config"
ValidateSectionBody(vc) ==
    IF ~CanQuery(vc) THEN R(vc, "AttributeError", <<>>)
    ELSE LET c1 == EnsureList(vc, "deterministic_transforms")
             c2 == attribute(c1, "preprocessing", ValidatePreprocessing).b
             c3 == attribute(c2, "postprocessing", ValidatePostprocessing).b
             c4 == EnsureList(c3, "additional_metrics")
         IN  CheckKeys(c4, ValidateCheckKeys)

set_validate_section(b) ==
    node(b, "validate", ValidateSectionBody(node_yield(b, "validate")))

\* ---------------------------------------------------------------- actions
\* calls is the log of the public calls made so far, each with the exception
\* it raised and its auxiliary output; written is the set of paths the
\* current (or last) build() call has written, files those on disk.
CallRec(op, args, err, out) == [op |-> op, args |-> args, err |-> err, out |-> out]

Idle == pc = "idle"

Call(op, args, r) ==
    /\ Idle
    /\ data' = r.b
    /\ calls' = Append(calls, CallRec(op, args, r.err, r.out))
    /\ UNCHANGED <<pc, written, files>>

Attribute(name, value) ==
    Call("attribute", <<name, value>>, attribute(data, name, value))

\* with builder.get_section_builder(key) as n: n.attribute(field, value)
NodeAttribute(key, field, value) ==
    Call("node", <<key, field, value>>,
         node(data, key, attribute(node_yield(data, key), field, value)))

\* with builder.builder.nodes(key) as add: with add() as n: _add_item(n, ...)
NodesAppend(key, name, vargs) ==
    Call("nodes", <<key, name, vargs>>, AppendItem(data, key, name, vargs))

AddSectionedItem(section_name, name, vargs) ==
    Call("add_sectioned_item", <<section_name, name, vargs>>,
         add_sectioned_item(data, section_name, name, vargs))

AddTrainItem(section_name, name, vargs) ==
    Call("add_train_item", <<section_name, name, vargs>>,
         add_train_item(data, section_name, name, vargs))

AddValidateItem(section_name, name, vargs) ==
    Call("add_validate_item", <<section_name, name, vargs>>,
         add_validate_item(data, section_name, name, vargs))

AddDeterministicTransform(name, vargs, is_train, is_validate) ==
    Call("add_deterministic_transform", <<name, vargs, is_train, is_validate>>,
         add_deterministic_transform(data, name, vargs, is_train, is_validate))

AddRandomTransform(name, vargs) ==
    Call("add_random_transform", <<name, vargs>>,
         add_random_transform(data, name, vargs))

AddPostprocessingTransform(name, vargs, is_train, is_validate) ==
    Call("add_postprocessing_transform", <<name, vargs, is_train, is_validate>>,
         add_postprocessing_transform(data, name, vargs, is_train, is_validate))

AddSectionHandler(section_name, name, vargs) ==
    Call("add_section_handler", <<section_name, name, vargs>>,
         add_section_handler(data, section_name, name, vargs))

SetTrainSection == Call("set_train_section", <<>>, set_train_section(data))

SetValidateSection == Call("set_validate_section", <<>>, set_validate_section(data))

\* build(), one step per statement group; the last entry of calls is the
\* build() call, "running" until it returns or raises.
LoggingConf == "configs/logging.conf"
TrainJson == "configs/train.json"

EndBuild(err, out) ==
    calls' = [calls EXCEPT ![Len(calls)] = CallRec("build", <<>>, err, out)]

\* build() with generate_logging_conf() ahead of the finalize steps
BuildTrain_logging_first ==
    /\ Idle
    /\ LET r == set_train_section(data)
       IN  /\ data' = r.b
           /\ written' = {LoggingConf}
           /\ files' = files \cup {"configs", LoggingConf}
           /\ IF Raised(r)
              THEN /\ calls' = Append(calls, CallRec("build", <<>>, r.err, r.out))
                   /\ pc' = "idle"
              ELSE /\ calls' = Append(calls, CallRec("build", <<>>, "running", <<>>))
                   /\ pc' = "set_validate_section"

\* self.set_train_section(...)
BuildTrain ==
    /\ Idle
    /\ LET r == set_train_section(data)
       IN  /\ data' = r.b
           /\ written' = {}
           /\ IF Raised(r)
              THEN /\ calls' = Append(calls, CallRec("build", <<>>, r.err, r.out))
                   /\ pc' = "idle"
              ELSE /\ calls' = Append(calls, CallRec("build", <<>>, "running", <<>>))
                   /\ pc' = "set_validate_section"
    /\ UNCHANGED files

\* self.set_validate_section(...)
BuildValidate ==
    /\ pc = "set_validate_section"
    /\ LET r == set_validate_section(data)
       IN  /\ data' = r.b
           /\ IF Raised(r)
              THEN EndBuild(r.err, r.out) /\ pc' = "idle"
              ELSE UNCHANGED calls /\ pc' = "generate_logging_conf"
    /\ UNCHANGED <<written, files>>

\* self.generate_logging_conf()
BuildLogging ==
    /\ pc = "generate_logging_conf"
    /\ files' = files \cup {"configs", LoggingConf}
    /\ written' = written \cup {LoggingConf}
    /\ pc' = "write_json"
    /\ UNCHANGED <<data, calls>>

\* makedirs, key_format, to_json, write train.json, log
BuildJson ==
    /\ pc = "write_json"
    /\ files' = files \cup {"configs", "docs", "scripts", TrainJson}
    /\ written' = written \cup {TrainJson}
    /\ EndBuild("none", <<>>)
    /\ pc' = "idle"
    /\ UNCHANGED data

Build == BuildTrain \/ BuildValidate \/ BuildLogging \/ BuildJson

Init ==
    /\ data = EmptyMap
    /\ calls = <<>>
    /\ pc = "idle"
    /\ written = {}
    /\ files = {}

\* ----------------------------------------------------------------- inputs
Names == {"A", "B"}
K1 == [k \in {"x"} |-> Str("1")]
K2 == [k \in {"y"} |-> Str("2")]
K12 == [k \in {"x", "y"} |-> Str("2")]

NodeKeys == {"loss", "run"}
Fields == {"x", "y"}
Scalars == {Str("1"), Str("2")}

\* ExtendedSpytulaBuilder on its own: attribute, node and nodes on the root.
NextNode ==
    /\ Len(calls) < MaxNodeCalls
    /\ \/ \E k \in NodeKeys, v \in {Str("1"), EmptyList} : Attribute(k, v)
       \/ \E k \in NodeKeys, f \in Fields, v \in Scalars : NodeAttribute(k, f, v)
       \/ \E k \in NodeKeys, n \in Names : NodesAppend(k, n, K1)

SpecNode == Init /\ [][NextNode]_vars

\* Item insertion: sectioned items, train / validate items, handlers.
NextItem ==
    /\ Len(calls) < MaxItemCalls
    /\ \/ \E n \in Names, v \in {K1, K2, K12} : AddSectionedItem("loss", n, v)
       \/ \E s \in {"dataset", "trainer"}, n \in Names, v \in {K1, K2} :
              AddTrainItem(s, n, v)
       \/ \E n \in Names, v \in {K1, K2} : AddValidateItem("dataset", n, v)
       \/ \E s \in {"train", "validate"} : AddSectionHandler(s, "A", K1)
       \/ \E k \in {"loss", "train"} : Attribute(k, Str("1"))

SpecItem == Init /\ [][NextItem]_vars

\* Transform lists: the three add_*_transform methods and the finalize steps,
\* on a builder whose validate section may have been set by the caller.
ValidateGiven == {Map([k \in {"random_transforms"} |-> EmptyList]), Str("1")}

NextTransform ==
    /\ Len(calls) < MaxTransformCalls
    /\ \/ \E n \in Names, it \in BOOLEAN, iv \in BOOLEAN :
              AddDeterministicTransform(n, K1, it, iv)
       \/ \E n \in Names : AddRandomTransform(n, K2)
       \/ \E n \in Names, it \in BOOLEAN, iv \in BOOLEAN :
              AddPostprocessingTransform(n, K1, it, iv)
       \/ SetTrainSection
       \/ SetValidateSection
       \/ \E v \in ValidateGiven : Attribute("validate", v)

SpecTransform == Init /\ [][NextTransform]_vars

\* Finalize steps and build(), on sections the caller stores with attribute()
\* and completes with add_train_item.
Section(keys) ==
    Map([k \in keys |-> IF k = "handlers" THEN List(<<Item("A", K1)>>) ELSE Item("A", K1)])
With(m, key, value) == attribute(m, key, value).b

TrainGiven ==
    {Section({"dataset", "dataloader", "handlers", "key_metric", "trainer", "inferer"}),
     Section({"dataset", "dataloader", "handlers", "inferer"}),
     With(Section({"dataset", "dataloader", "handlers", "key_metric", "inferer"}),
          "preprocessing", Str("sentinel")),
     With(With(Section({"dataset", "dataloader", "handlers", "key_metric", "trainer",
                        "inferer", "additional_metrics"}),
               "deterministic_transforms", List(<<Item("B", K2)>>)),
          "postprocessing", Str("sentinel")),
     Str("1")}

ValidateGivenFull ==
    {Section({"dataset", "dataloader", "handlers", "key_metric", "evaluator", "inferer"}),
     Section({"dataset", "handlers", "key_metric", "inferer"}),
     With(With(Section({"dataset", "dataloader", "handlers", "key_metric", "evaluator",
                        "inferer", "additional_metrics"}),
               "deterministic_transforms", List(<<DetRef(0)>>)),
          "preprocessing", Str("sentinel")),
     EmptyList}

NextBuild ==
    \/ /\ Len(calls) < MaxBuildCalls
       /\ \/ \E m \in TrainGiven : Attribute("train", m)
          \/ \E m \in ValidateGivenFull : Attribute("validate", m)
          \/ \E s \in {"trainer", "key_metric"} : AddTrainItem(s, "A", K1)
          \/ SetTrainSection
          \/ SetValidateSection
          \/ BuildTrain
    \/ BuildValidate
    \/ BuildLogging
    \/ BuildJson

SpecBuild == Init /\ [][NextBuild]_vars

\* ------------------------------------------------------------ observation
NCalls == Len(calls)
Last == calls[NCalls]
Prev == calls[NCalls - 1]
Returned(c) == c.err = "none"
\* this step is a public call of op
Calling(op) == Len(calls') = NCalls + 1 /\ calls'[NCalls + 1].op = op
TheCall == calls'[NCalls + 1]
ListAt(b, k) == b.v[k].v

\* ------------------------------------------------------------------ claims
TwoNodeWrites ==
    /\ NCalls >= 2
    /\ Last.op = "node" /\ Prev.op = "node"
    /\ Last.args[1] = Prev.args[1]
    /\ Last.args[2] # Prev.args[2]
    /\ Returned(Prev) /\ Returned(Last)

\* C1: after node(k) is opened twice in succession and one distinct field is
\* written in each opening, the mapping stored under k holds both fields with
\* the values written; the second opening discards nothing of the first.
C1_IdempotentNodeReuse ==
    TwoNodeWrites =>
        /\ Has(data, Last.args[1])
        /\ IsMap(data.v[Last.args[1]])
        /\ Has(data.v[Last.args[1]], Prev.args[2])
        /\ Has(data.v[Last.args[1]], Last.args[2])
        /\ data.v[Last.args[1]].v[Prev.args[2]] = Prev.args[3]
        /\ data.v[Last.args[1]].v[Last.args[2]] = Last.args[3]

C1_Witness == TwoNodeWrites /\ NCalls = 2

TwoNodesAppends ==
    /\ NCalls = 2
    /\ Last.op = "nodes" /\ Prev.op = "nodes"
    /\ Last.args[1] = Prev.args[1]

\* C2: nodes(k) opened twice on a fresh builder, appending A then B, leaves
\* the list under k equal to [A, B]; every opening of an absent key or of an
\* existing list keeps the earlier elements in place and appends at the end.
C2_ListReuseNeverTruncates ==
    /\ [](TwoNodesAppends =>
            data.v[Last.args[1]] =
                List(<<Item(Prev.args[2], Prev.args[3]), Item(Last.args[2], Last.args[3])>>))
    /\ [][Calling("nodes") =>
            LET k == TheCall.args[1]
                old == IF Has(data, k) /\ IsList(data.v[k]) THEN ListAt(data, k) ELSE <<>>
            IN  (~Has(data, k) \/ IsList(data.v[k])) =>
                    /\ Returned(TheCall)
                    /\ data'.v[k] = List(Append(old, Item(TheCall.args[2], TheCall.args[3])))]_vars

C2_Witness ==
    /\ TwoNodesAppends
    /\ Prev.args[2] = "A" /\ Last.args[2] = "B"
    /\ Len(ListAt(data, Last.args[1])) = 2

TwoSectionedItems ==
    /\ NCalls >= 2
    /\ Last.op = "add_sectioned_item" /\ Prev.op = "add_sectioned_item"
    /\ Last.args[1] = Prev.args[1]
    /\ Returned(Prev) /\ Returned(Last)

\* C8 as stated: after add_sectioned_item is called twice with the same
\* section, with kwargs K1 and then K2, the section holds exactly the
\* discriminator field and the keys of K2.
C8_SecondItemReplaces ==
    TwoSectionedItems =>
        Keys(data.v[Last.args[1]]) = {"_target_"} \cup DOMAIN Last.args[3]

\* C8 amended: the section is opened with node(), so after the two calls it
\* holds the discriminator of the second call, every key of K2 with K2's
\* value and every key of K1 that is not in K2 with K1's value.
C8_SecondItemMerges ==
    TwoSectionedItems =>
        LET sec == data.v[Last.args[1]]
            K1_ == Prev.args[3]
            K2_ == Last.args[3]
        IN  /\ IsMap(sec)
            /\ ({"_target_"} \cup DOMAIN K1_ \cup DOMAIN K2_) \subseteq Keys(sec)
            /\ sec.v["_target_"] = Str(Last.args[2])
            /\ \A k \in DOMAIN K2_ : sec.v[k] = K2_[k]
            /\ \A k \in DOMAIN K1_ \ DOMAIN K2_ : sec.v[k] = K1_[k]

C8_Witness ==
    /\ TwoSectionedItems
    /\ DOMAIN Prev.args[3] \ DOMAIN Last.args[3] # {}
    /\ Prev.args[2] # Last.args[2]

PipelineItemCall(op, p) ==
    /\ Calling(op)
    /\ Returned(TheCall)
    /\ LET s == TheCall.args[1]
           before == node_yield(data, p)
           after == data'.v[p]
       IN  /\ \A k \in Keys(data) \ {p} : Has(data', k) /\ data'.v[k] = data.v[k]
           /\ \A k \in Keys(before) \ {s} : Has(after, k) /\ after.v[k] = before.v[k]
           /\ \A f \in Keys(node_yield(before, s)) \ ({"_target_"} \cup DOMAIN TheCall.args[3]) :
                 Has(after.v[s], f) /\ after.v[s].v[f] = node_yield(before, s).v[f]
           /\ after.v[s].v["_target_"] = Str(TheCall.args[2])
           /\ \A f \in DOMAIN TheCall.args[3] : after.v[s].v[f] = TheCall.args[3][f]

\* C9: a call of add_train_item or add_validate_item with section s that
\* returns leaves every other key of the phase and of the document unchanged,
\* whether or not the phase and the section existed, and augments an existing
\* section: fields the call does not write keep their values.
C9_NestedIdempotency ==
    [][/\ (Calling("add_train_item") /\ Returned(TheCall)) => PipelineItemCall("add_train_item", "train")
       /\ (Calling("add_validate_item") /\ Returned(TheCall)) =>
              PipelineItemCall("add_validate_item", "validate")]_vars

\* a second add_train_item on the same section after a handler was added
C9_Witness ==
    /\ NCalls = 3
    /\ calls[1].op = "add_section_handler" /\ calls[1].args[1] = "train"
    /\ calls[2].op = "add_train_item" /\ Last.op = "add_train_item"
    /\ calls[2].args[1] = Last.args[1]
    /\ DOMAIN calls[2].args[3] # DOMAIN Last.args[3]
    /\ Returned(Last)
    /\ Has(data.v["train"], "handlers")
    /\ Cardinality(Keys(data.v["train"].v[Last.args[1]])) = 3

\* the list under b[p][k], empty when there is none
SubList(b, p, k) ==
    IF Has(b, p) /\ Has(b.v[p], k) /\ IsList(b.v[p].v[k]) THEN b.v[p].v[k].v ELSE <<>>
\* b[p][k] is absent or a list (b[p] absent or a mapping)
ListOrAbsent(b, p, k) ==
    /\ Has(b, p) => IsMap(b.v[p])
    /\ (Has(b, p) /\ Has(b.v[p], k)) => IsList(b.v[p].v[k])
\* b[p][k] is the same in b and c, absent in both or equal
SameAt(b, c, p, k) ==
    /\ Has(b, p) <=> Has(c, p)
    /\ Has(b, p) => /\ Has(b.v[p], k) <=> Has(c.v[p], k)
                    /\ Has(b.v[p], k) => b.v[p].v[k] = c.v[p].v[k]
\* everything but b[p][k] is the same in b and c
SameBut(b, c, p, k) ==
    /\ \A q \in (Keys(b) \cup Keys(c)) \ {p} : Has(b, q) /\ Has(c, q) /\ b.v[q] = c.v[q]
    /\ Has(b, p) =>
          \A f \in (Keys(b.v[p]) \cup Keys(c.v[p])) \ {k} :
              Has(b.v[p], f) /\ Has(c.v[p], f) /\ b.v[p].v[f] = c.v[p].v[f]

OnlyDeterministicBoth ==
    /\ NCalls >= 1
    /\ \A i \in 1..NCalls :
          /\ calls[i].op = "add_deterministic_transform"
          /\ calls[i].args[3] /\ calls[i].args[4]

\* C3: on a fresh builder, after N >= 1 calls of add_deterministic_transform
\* with is_train and is_validate, validate.deterministic_transforms is
\* ["@train#deterministic_transforms#0", ..., "...#N-1"] and
\* train.deterministic_transforms holds the N items in call order.
C3_CrossReferenceIndexing ==
    OnlyDeterministicBoth =>
        /\ \A i \in 1..NCalls : Returned(calls[i])
        /\ Has(data, "validate") /\ Has(data.v["validate"], "deterministic_transforms")
        /\ data.v["validate"].v["deterministic_transforms"] =
              List([i \in 1..NCalls |->
                      Str("@train#deterministic_transforms#" \o ToString(i - 1))])
        /\ Has(data, "train") /\ Has(data.v["train"], "deterministic_transforms")
        /\ data.v["train"].v["deterministic_transforms"] =
              List([i \in 1..NCalls |-> Item(calls[i].args[1], calls[i].args[2])])

C3_Witness ==
    /\ OnlyDeterministicBoth
    /\ NCalls = 3
    /\ calls[1].args[1] # calls[2].args[1]

\* C7: a call of add_random_transform that returns appends exactly one item
\* to train.random_transforms (absent or a list before) and changes nothing
\* else; no call other than a direct attribute() on validate creates or
\* changes validate.random_transforms.
C7_RandomNeverInValidate ==
    [][/\ (Calling("add_random_transform") /\ Returned(TheCall)
              /\ ListOrAbsent(data, "train", "random_transforms")) =>
              /\ data'.v["train"].v["random_transforms"] =
                    List(Append(SubList(data, "train", "random_transforms"),
                                Item(TheCall.args[1], TheCall.args[2])))
              /\ SameBut(data', IF Has(data, "train") THEN data
                                ELSE attribute(data, "train", EmptyMap).b,
                         "train", "random_transforms")
       /\ ~Calling("attribute") =>
              /\ (Has(data', "validate") /\ Has(data'.v["validate"], "random_transforms")) =>
                    (Has(data, "validate") /\ Has(data.v["validate"], "random_transforms"))
              /\ (Has(data, "validate") /\ Has(data.v["validate"], "random_transforms")) =>
                    SameAt(data, data', "validate", "random_transforms")]_vars

\* random transforms added around a shared deterministic one, validate
\* present without random_transforms
C7_Witness ==
    /\ NCalls = 3
    /\ calls[1].op = "add_random_transform"
    /\ calls[2].op = "add_deterministic_transform" /\ calls[2].args[4]
    /\ calls[3].op = "add_random_transform"
    /\ Len(SubList(data, "train", "random_transforms")) = 2
    /\ Has(data, "validate") /\ ~Has(data.v["validate"], "random_transforms")

DetKey == "deterministic_transforms"

\* C10: a call add_deterministic_transform(name, kwargs, is_train,
\* is_validate) that returns appends one item to train.deterministic_transforms
\* iff is_train and one element to validate.deterministic_transforms iff
\* is_validate; that element is the cross-reference to the train item's index
\* when is_train, a fresh item otherwise; a list that does not grow, and
\* everything else, is unchanged.
C10_ThreeCaseEffect ==
    [][(Calling("add_deterministic_transform") /\ Returned(TheCall)
          /\ ListOrAbsent(data, "train", DetKey)
          /\ ListOrAbsent(data, "validate", DetKey)) =>
        LET name == TheCall.args[1]
            kwargs == TheCall.args[2]
            is_train == TheCall.args[3]
            is_validate == TheCall.args[4]
            told == SubList(data, "train", DetKey)
            vold == SubList(data, "validate", DetKey)
        IN  /\ IF is_train
               THEN /\ data'.v["train"].v[DetKey] = List(Append(told, Item(name, kwargs)))
                    /\ Has(data, "train") =>
                          \A f \in Keys(data.v["train"]) \ {DetKey} :
                              data'.v["train"].v[f] = data.v["train"].v[f]
               ELSE /\ Has(data', "train") <=> Has(data, "train")
                    /\ Has(data, "train") => data'.v["train"] = data.v["train"]
            /\ IF is_validate
               THEN /\ data'.v["validate"].v[DetKey] =
                          List(Append(vold,
                                 IF is_train
                                 THEN Str("@train#deterministic_transforms#"
                                            \o ToString(Len(told)))
                                 ELSE Item(name, kwargs)))
                    /\ Has(data, "validate") =>
                          \A f \in Keys(data.v["validate"]) \ {DetKey} :
                              data'.v["validate"].v[f] = data.v["validate"].v[f]
               ELSE /\ Has(data', "validate") <=> Has(data, "validate")
                    /\ Has(data, "validate") => data'.v["validate"] = data.v["validate"]
            /\ Keys(data') \ {"train", "validate"} = Keys(data) \ {"train", "validate"}
       ]_vars

\* all three cases taken on one builder
C10_Witness ==
    /\ NCalls = 3
    /\ \A i \in 1..3 : calls[i].op = "add_deterministic_transform" /\ Returned(calls[i])
    /\ calls[1].args[3] /\ ~calls[1].args[4]
    /\ ~calls[2].args[3] /\ calls[2].args[4]
    /\ calls[3].args[3] /\ calls[3].args[4]
    /\ Len(SubList(data, "train", DetKey)) = 2
    /\ Len(SubList(data, "validate", DetKey)) = 2

\* the finalize steps, called directly or as the first two steps of build()
TrainFinalize == Calling("set_train_section") \/ Calling("build")
ValidateFinalize ==
    Calling("set_validate_section") \/ (pc = "set_validate_section" /\ pc' # pc)
\* the exception the step raised and the keys its message names
TrainError == IF TheCall.err = "running" THEN "none" ELSE TheCall.err
ValidateError ==
    IF Calling("set_validate_section") THEN TheCall.err
    ELSE IF pc' = "generate_logging_conf" THEN "none" ELSE calls'[NCalls].err
ValidateNamed == IF Calling("set_validate_section") THEN TheCall.out ELSE calls'[NCalls].out
Range(q) == {q[i] : i \in DOMAIN q}
SectionOrAbsent(p) == Has(data, p) => IsMap(data.v[p])
KeysAt(p) == IF Has(data, p) THEN Keys(data.v[p]) ELSE {}
Injected == {"preprocessing", "postprocessing"}

TrainRequired ==
    {"preprocessing", "dataset", "dataloader", "postprocessing",
     "handlers", "key_metric", "trainer", "inferer"}
ValidateRequired ==
    {"preprocessing", "dataset", "dataloader", "postprocessing",
     "handlers", "key_metric", "evaluator", "inferer"}

\* C4: the train finalize step, reaching its check (train absent or a
\* mapping), raises AssertionError exactly when a required key is absent from
\* train at the check, that is absent before the step and not injected by it,
\* and the message names every absent required key, each once, and no present
\* one; the validate finalize step does the same with evaluator for trainer.
C4_RequiredKeyGate ==
    [][/\ (TrainFinalize /\ SectionOrAbsent("train")) =>
            LET absent == TrainRequired \ (KeysAt("train") \cup Injected)
            IN  /\ TrainError = (IF absent = {} THEN "none" ELSE "AssertionError")
                /\ Range(TheCall.out) = absent
                /\ Len(TheCall.out) = Cardinality(absent)
       /\ (ValidateFinalize /\ SectionOrAbsent("validate")) =>
            LET absent == ValidateRequired \ (KeysAt("validate") \cup Injected)
            IN  /\ ValidateError = (IF absent = {} THEN "none" ELSE "AssertionError")
                /\ Range(ValidateNamed) = absent
                /\ Len(ValidateNamed) = Cardinality(absent)]_vars

\* build() raising with exactly key_metric and trainer named
C4_Witness ==
    /\ NCalls >= 2
    /\ Last.op = "build" /\ Last.err = "AssertionError"
    /\ Last.out = <<"key_metric", "trainer">>
    /\ \A k \in TrainRequired \ {"key_metric", "trainer"} : Has(data.v["train"], k)

LatestBuild(i) ==
    /\ i \in 1..NCalls
    /\ calls[i].op = "build"
    /\ \A j \in (i + 1)..NCalls : calls[j].op # "build"
Complete(b, p, required) == Has(b, p) /\ IsMap(b.v[p]) /\ required \subseteq Keys(b.v[p])

\* C5: a build() call writes configs/logging.conf and configs/train.json only
\* after both finalize steps have completed without error: while it holds a
\* written file the call has not raised and train and validate hold all
\* their required keys; a build() that raised has written no file.
C5_BuildIsValidationGate ==
    /\ \A i \in 1..NCalls :
          (LatestBuild(i) /\ calls[i].err \notin {"running", "none"}) => written = {}
    /\ (written # {} /\ NCalls >= 1 /\ Last.op = "build") =>
          /\ Last.err \in {"running", "none"}
          /\ Complete(data, "train", TrainRequired)
          /\ Complete(data, "validate", ValidateRequired)
    /\ written \subseteq files
    /\ TrainJson \in written => LoggingConf \in written

\* a build() that passed the train finalize step and raised in the validate
\* finalize step
C5_Witness ==
    /\ NCalls >= 3
    /\ Last.op = "build" /\ Last.err = "AssertionError"
    /\ "evaluator" \in Range(Last.out)
    /\ Complete(data, "train", TrainRequired)
    /\ written = {}

\* C6: after a train finalize step on a builder that has a train section,
\* whatever train.preprocessing and train.postprocessing held before,
\* train.preprocessing is the item {_target_: "Compose", transforms:
\* "$@train#deterministic_transforms + @train#random_transforms"} and
\* train.postprocessing the item referencing
\* "$@train#postprocessing_transforms".
C6_FinalizeOverwrites ==
    [][(TrainFinalize /\ ((Has(data, "train") /\ IsMap(data.v["train"])) \/ TrainError = "none")) =>
          /\ data'.v["train"].v["preprocessing"] =
                Map([k \in {"_target_", "transforms"} |->
                       IF k = "_target_" THEN Str("Compose")
                       ELSE Str("$@train#deterministic_transforms + @train#random_transforms")])
          /\ data'.v["train"].v["postprocessing"] =
                Map([k \in {"_target_", "transforms"} |->
                       IF k = "_target_" THEN Str("Compose")
                       ELSE Str("$@train#postprocessing_transforms")])]_vars

\* a sentinel under train.preprocessing replaced by the finalize step
C6_Witness ==
    /\ NCalls = 2
    /\ calls[1].op = "attribute" /\ calls[1].args[1] = "train"
    /\ IsMap(calls[1].args[2])
    /\ Has(calls[1].args[2], "preprocessing")
    /\ calls[1].args[2].v["preprocessing"] = Str("sentinel")
    /\ Last.op = "set_train_section"
    /\ data.v["train"].v["preprocessing"].t = "map"

\* the cross-reference strings, spelled as the claims spell them
DetRefText(i) == Str("@train#deterministic_transforms#" \o ToString(i))
IsPrefix(p, q) == Len(p) <= Len(q) /\ \A i \in 1..Len(p) : q[i] = p[i]

\* C11: under any sequence of add_deterministic_transform calls with
\* arbitrary flags, interleaved with add_random_transform,
\* add_postprocessing_transform and the finalize steps, every string in
\* validate.deterministic_transforms is "@train#deterministic_transforms#i"
\* with 0 <= i < len(train.deterministic_transforms); the string a call
\* appends names the position of the item that same call inserted, and no
\* later call moves an item of train.deterministic_transforms.
C11_CrossReferencesStayValid ==
    /\ [](\A j \in 1..Len(SubList(data, "validate", DetKey)) :
            LET e == SubList(data, "validate", DetKey)[j]
            IN  e.t = "str" =>
                  \E i \in 0..(Len(SubList(data, "train", DetKey)) - 1) : e = DetRefText(i))
    /\ [][/\ IsPrefix(SubList(data, "train", DetKey), SubList(data', "train", DetKey))
          /\ (Calling("add_deterministic_transform") /\ Returned(TheCall)
                /\ TheCall.args[3] /\ TheCall.args[4]) =>
                LET tl == SubList(data', "train", DetKey)
                    vl == SubList(data', "validate", DetKey)
                IN  /\ vl # <<>> /\ tl # <<>>
                    /\ \E i \in 0..(Len(tl) - 1) :
                          /\ vl[Len(vl)] = DetRefText(i)
                          /\ i = Len(SubList(data, "train", DetKey))
                          /\ tl[i + 1] = Item(TheCall.args[1], TheCall.args[2])]_vars

\* a reference whose index differs from its own position in validate and
\* from the number of shared transforms: validate-only, train-only, shared
C11_Witness ==
    /\ NCalls = 3
    /\ \A i \in 1..3 : calls[i].op = "add_deterministic_transform"
    /\ ~calls[1].args[3] /\ calls[1].args[4]
    /\ calls[2].args[3] /\ ~calls[2].args[4]
    /\ calls[3].args[3] /\ calls[3].args[4]
    /\ calls[2].args[1] # calls[3].args[1]
    /\ SubList(data, "validate", DetKey)[2] = DetRefText(1)

PostKey == "postprocessing_transforms"
PostRefText(i) == Str("@train#postprocessing_transforms#" \o ToString(i))

\* the document with the deterministic and the postprocessing lists of train
\* and validate exchanged and their cross-references respelled
SwapKey(k) == IF k = DetKey THEN PostKey ELSE IF k = PostKey THEN DetKey ELSE k
Respell(e, n) ==
    IF e.t # "str" THEN e
    ELSE IF \E i \in 0..n : e = DetRefText(i)
    THEN PostRefText(CHOOSE i \in 0..n : e = DetRefText(i))
    ELSE IF \E i \in 0..n : e = PostRefText(i)
    THEN DetRefText(CHOOSE i \in 0..n : e = PostRefText(i))
    ELSE e
RespellList(x, n) ==
    IF IsList(x) THEN List([i \in 1..Len(x.v) |-> Respell(x.v[i], n)]) ELSE x
SwapSection(sec, n) ==
    IF ~IsMap(sec) THEN sec
    ELSE Map([k \in {SwapKey(q) : q \in Keys(sec)} |->
                IF k \in {DetKey, PostKey} THEN RespellList(sec.v[SwapKey(k)], n)
                ELSE sec.v[k]])
SwapDoc(d, n) ==
    Map([p \in Keys(d) |->
           IF p \in {"train", "validate"} THEN SwapSection(d.v[p], n) ELSE d.v[p]])

\* C12: add_postprocessing_transform is add_deterministic_transform on the
\* postprocessing_transforms lists: from every state, with the same name,
\* kwargs and flags, it raises what add_deterministic_transform raises on the
\* document with the two kinds of list exchanged and leaves the exchanged
\* result, references spelled "@train#postprocessing_transforms#i"; i is the
\* length of train.postprocessing_transforms before the call.
C12_PostprocessingSameMachine ==
    [][Calling("add_postprocessing_transform") =>
        LET n == NCalls + 1
            r == add_deterministic_transform(SwapDoc(data, n), TheCall.args[1],
                     TheCall.args[2], TheCall.args[3], TheCall.args[4])
        IN  /\ TheCall.err = r.err
            /\ data' = SwapDoc(r.b, n)
            /\ (Returned(TheCall) /\ TheCall.args[3] /\ TheCall.args[4]) =>
                  LET vl == SubList(data', "validate", PostKey)
                  IN  /\ vl # <<>>
                      /\ vl[Len(vl)] = PostRefText(Len(SubList(data, "train", PostKey)))
       ]_vars

\* a shared postprocessing transform numbered 0 after two shared
\* deterministic ones
C12_Witness ==
    /\ NCalls = 3
    /\ calls[1].op = "add_deterministic_transform" /\ calls[1].args[3] /\ calls[1].args[4]
    /\ calls[2].op = "add_deterministic_transform" /\ calls[2].args[3] /\ calls[2].args[4]
    /\ Last.op = "add_postprocessing_transform" /\ Last.args[3] /\ Last.args[4]
    /\ SubList(data, "validate", PostKey) = <<PostRefText(0)>>
    /\ Len(SubList(data, "train", DetKey)) = 2

\* key k of section p after the step: the value it had, or an empty list
\* when the section had no such key
KeptOrEmpty(p, k) ==
    /\ Has(data', p) /\ Has(data'.v[p], k)
    /\ data'.v[p].v[k] = (IF Has(data.v[p], k) THEN data.v[p].v[k] ELSE List(<<>>))
HasSection(p) == Has(data, p) /\ IsMap(data.v[p])

\* C13: a finalize step on an existing section loses no transform: a
\* deterministic_transforms or random_transforms list of train (for the
\* validate step, deterministic_transforms of validate) that exists before
\* the step is identical after it, and an absent one becomes an empty list.
C13_FinalizeKeepsTransforms ==
    [][/\ (TrainFinalize /\ HasSection("train")) =>
              KeptOrEmpty("train", DetKey) /\ KeptOrEmpty("train", "random_transforms")
       /\ (ValidateFinalize /\ HasSection("validate")) => KeptOrEmpty("validate", DetKey)]_vars

\* the train finalize step run after a deterministic and a random transform
\* were added
C13_Witness ==
    /\ NCalls = 3
    /\ Last.op = "set_train_section"
    /\ Len(SubList(data, "train", DetKey)) = 1
    /\ Len(SubList(data, "train", "random_transforms")) = 1
    /\ Has(data.v["train"], "preprocessing")

\* C14: in the train finalize step as in the validate finalize step,
\* additional_metrics is only ensured to exist: a value stored under it
\* before the step is unchanged after it, an absent one becomes an empty list.
C14_AdditionalMetricsEnsured ==
    [][/\ (TrainFinalize /\ HasSection("train")) =>
              KeptOrEmpty("train", "additional_metrics")
       /\ (ValidateFinalize /\ HasSection("validate")) =>
              KeptOrEmpty("validate", "additional_metrics")]_vars

\* C15: opening a node-list on a key that holds a value that is not a list,
\* or a node on a key that holds a value that is not a mapping, raises and
\* leaves the document as it was.
C15_TypeConflictFails ==
    [][/\ (Calling("nodes") /\ Has(data, TheCall.args[1])
              /\ ~IsList(data.v[TheCall.args[1]])) =>
              (~Returned(TheCall) /\ data' = data)
       /\ (Calling("node") /\ Has(data, TheCall.args[1])
              /\ ~IsMap(data.v[TheCall.args[1]])) =>
              (~Returned(TheCall) /\ data' = data)]_vars

\* C16: when build() has returned, every transform list named by the
\* composed items it injected is a key of the document.
C16_NoDanglingComposedReference ==
    (NCalls >= 1 /\ Last.op = "build" /\ Last.err = "none") =>
        /\ Has(data, "train") /\ Has(data, "validate")
        /\ {DetKey, "random_transforms", PostKey} \subseteq Keys(data.v["train"])
        /\ {DetKey, PostKey} \subseteq Keys(data.v["validate"])
====
